---- MODULE Spec2Model ----
(***************************************************************************)
(* HealthcareDatabase (src/healthcare_db.py): a data-access layer over a   *)
(* SQLite store with three tables, patients, medical_records and           *)
(* appointments.  Rows are tuples in column order, as sqlite3 returns      *)
(* them; the CHECK / NOT NULL / UNIQUE / FOREIGN KEY clauses of the schema *)
(* are evaluated with SQLite's three-valued logic (a CHECK whose value is  *)
(* NULL passes; '=' against NULL never matches).                           *)
(*                                                                         *)
(* Date and date-time columns hold ISO-8601 text compared with the BINARY  *)
(* collation; for text of one fixed format that order is the chronological *)
(* order, so such a value is represented by its position on a discrete     *)
(* time line (a natural number of ticks).                                  *)
(***************************************************************************)
EXTENDS Integers, Sequences, FiniteSets, TLC

VARIABLES
    patients,          \* rows of table patients, in rowid order
    medical_records,   \* rows of table medical_records, in rowid order
    appointments,      \* rows of table appointments, in rowid order
    now,               \* the storage engine's clock, datetime('now')
    last,              \* the last call of the layer and its outcome
    issued             \* the successful add_patient calls: <<id, inputs>>

vars == <<patients, medical_records, appointments, now, last, issued>>

----------------------------------------------------------------------------
(* Bounds of the model *)

MaxPatients == 2
MaxRecords == 2
MaxAppointments == 2
MaxTime == 2
DayTicks == 2

----------------------------------------------------------------------------
(* Values *)

\* Python's None / SQL NULL in a text position.
None == "None"

\* Python's None / SQL NULL in an integer or date position.
NoneInt == -9

\* The value add_patient, add_medical_record and schedule_appointment return
\* when the storage engine rejects the statement.
Sentinel == -1

\* sqlite3.Error and the two subclasses the engine raises on a write.
SqliteErrors == {"IntegrityError", "OperationalError"}

\* The state of the engine when a statement is executed.
Storage == {"ok", "OperationalError"}

----------------------------------------------------------------------------
(* Schema: column positions and constraints *)

Genders == {"Male", "Female", "Other"}
BloodTypes == {"A+", "A-", "B+", "B-", "AB+", "AB-", "O+", "O-"}
Statuses == {"Scheduled", "Completed", "Cancelled"}

\* PRAGMA foreign_keys is off on a new connection and the layer never turns
\* it on.
foreign_keys == FALSE

\* A CHECK(col IN (...)) constraint: violated only when its value is FALSE,
\* and  NULL IN (...)  is NULL.
CheckIn(v, allowed) == v = None \/ v \in allowed

\* The patients table declared without UNIQUE on email.
EmailUniqueDropped(email) == TRUE

\* UNIQUE on patients.email: NULLs are distinct from each other.
EmailUnique(email) ==
    email = None \/ \A i \in 1..Len(patients) : patients[i][7] # email

\* FOREIGN KEY (patient_id) REFERENCES patients (patient_id).
ForeignKeyOk(patient_id) ==
    ~foreign_keys \/ \E i \in 1..Len(patients) : patients[i][1] = patient_id

PatientsConstraints(a) ==
    /\ a.first_name # None
    /\ a.last_name # None
    /\ a.date_of_birth # None
    /\ CheckIn(a.gender, Genders)
    /\ EmailUnique(a.email)
    /\ CheckIn(a.blood_type, BloodTypes)

\* What cursor.execute raises for a write: the engine's failure if it has
\* one, IntegrityError when a constraint is violated, nothing otherwise.
Execute(storage, constraintsOk) ==
    IF storage # "ok" THEN storage
    ELSE IF constraintsOk THEN "none"
    ELSE "IntegrityError"

\* A call of the layer as its caller sees it: what was called with which
\* arguments, what it raised ("none": it returned) and what it returned;
\* storage is the state the engine was in.  The read operations are called
\* with a working engine.
Call(op, args, storage, raised, ret) ==
    [op |-> op, args |-> args, storage |-> storage, raised |-> raised,
     ret |-> ret]

\* The outcome of a write whose statement raised exc: the handler returns
\* the failure value if its except clause catches exc, and the exception
\* reaches the caller otherwise (ret then has no meaning).
Failure(op, args, storage, exc, caught, failure) ==
    Call(op, args, storage, IF caught THEN "none" ELSE exc, failure)

----------------------------------------------------------------------------
(* Patients *)

\* except sqlite3.IntegrityError
AddPatientCatches(exc) == exc = "IntegrityError"

PatientRow(id, a) ==
    <<id, a.first_name, a.last_name, a.date_of_birth, a.gender,
      a.phone, a.email, a.address, a.blood_type>>

add_patient(a, storage) ==
    LET exc == Execute(storage, PatientsConstraints(a))
        id == Len(patients) + 1
    IN  /\ exc = "none" => Len(patients) < MaxPatients
        /\ IF exc = "none"
           THEN /\ patients' = Append(patients, PatientRow(id, a))
                /\ issued' = Append(issued, <<id, a>>)
                /\ last' = Call("add_patient", a, storage, "none", id)
           ELSE /\ UNCHANGED <<patients, issued>>
                /\ last' = Failure("add_patient", a, storage, exc,
                                   AddPatientCatches(exc), Sentinel)
        /\ UNCHANGED <<medical_records, appointments, now>>

\* The dict built with the positions of phone and email exchanged.
PatientDictSwapped(p) ==
    [patient_id |-> p[1], first_name |-> p[2], last_name |-> p[3],
     date_of_birth |-> p[4], gender |-> p[5], phone |-> p[7],
     email |-> p[6], address |-> p[8], blood_type |-> p[9]]

PatientDict(p) ==
    [patient_id |-> p[1], first_name |-> p[2], last_name |-> p[3],
     date_of_birth |-> p[4], gender |-> p[5], phone |-> p[6],
     email |-> p[7], address |-> p[8], blood_type |-> p[9]]

\* Optional[Dict]: <<>> is None, <<d>> is the dict d.
PatientById(patient_id) ==
    LET rows == SelectSeq(patients, LAMBDA p : p[1] = patient_id)
    IN  IF rows # <<>> THEN <<PatientDict(rows[1])>> ELSE <<>>

get_patient_by_id(patient_id) ==
    /\ last' = Call("get_patient_by_id", patient_id, "ok", "none",
                    PatientById(patient_id))
    /\ UNCHANGED <<patients, medical_records, appointments, now, issued>>

\* The characters of the texts used as names and as search terms.
Chars(s) ==
    CASE s = "John"  -> <<"J", "o", "h", "n">>
      [] s = "Jane"  -> <<"J", "a", "n", "e">>
      [] s = "Ann"   -> <<"A", "n", "n">>
      [] s = "Jim"   -> <<"J", "i", "m">>
      [] s = "Doe"   -> <<"D", "o", "e">>
      [] s = "doe"   -> <<"d", "o", "e">>
      [] s = "Smith" -> <<"S", "m", "i", "t", "h">>
      [] s = "Lee"   -> <<"L", "e", "e">>
      [] s = "D_e"   -> <<"D", "_", "e">>
      [] s = "an"    -> <<"a", "n">>
      [] s = "%"     -> <<"%">>
      [] OTHER       -> <<>>

UpperCase == <<"A", "D", "J", "L", "S">>
LowerCase == <<"a", "d", "j", "l", "s">>

\* LIKE folds the case of ASCII letters.
Lower(c) ==
    IF \E i \in 1..Len(UpperCase) : UpperCase[i] = c
    THEN LowerCase[CHOOSE i \in 1..Len(UpperCase) : UpperCase[i] = c]
    ELSE c

\* text LIKE pattern: % matches any run of characters, _ any one character,
\* any other character matches itself up to case.
RECURSIVE Like(_, _)
Like(pattern, text) ==
    IF pattern = <<>> THEN text = <<>>
    ELSE IF Head(pattern) = "%"
         THEN \/ Like(Tail(pattern), text)
              \/ text # <<>> /\ Like(pattern, Tail(text))
    ELSE IF text = <<>> THEN FALSE
    ELSE IF Head(pattern) = "_" THEN Like(Tail(pattern), Tail(text))
    ELSE Lower(Head(pattern)) = Lower(Head(text))
         /\ Like(Tail(pattern), Tail(text))

\* f"%{name}%"
NamePattern(name) == <<"%">> \o Chars(name) \o <<"%">>

\* `if name:` / `if gender:` -- None and the empty string add no condition.
Truthy(s) == s # None /\ s # ""

\* The WHERE clause with AND between the two name columns.
SearchWhereBothNames(p, name, gender) ==
    /\ Truthy(name) => /\ Like(NamePattern(name), Chars(p[2]))
                       /\ Like(NamePattern(name), Chars(p[3]))
    /\ Truthy(gender) => p[5] # None /\ p[5] = gender

SearchWhere(p, name, gender) ==
    /\ Truthy(name) => \/ Like(NamePattern(name), Chars(p[2]))
                       \/ Like(NamePattern(name), Chars(p[3]))
    /\ Truthy(gender) => p[5] # None /\ p[5] = gender

SearchPatients(name, gender) ==
    LET rows == SelectSeq(patients, LAMBDA p : SearchWhere(p, name, gender))
    IN  [i \in 1..Len(rows) |-> PatientDict(rows[i])]

search_patients(name, gender) ==
    /\ last' = Call("search_patients", [name |-> name, gender |-> gender],
                    "ok", "none", SearchPatients(name, gender))
    /\ UNCHANGED <<patients, medical_records, appointments, now, issued>>

----------------------------------------------------------------------------
(* Medical records *)

MedicalRecordsConstraints(a) ==
    /\ a.patient_id # NoneInt
    /\ a.visit_date # NoneInt
    /\ ForeignKeyOk(a.patient_id)

\* except sqlite3.Error
WriteCatches(exc) == exc \in SqliteErrors

MedicalRecordRow(id, a) ==
    <<id, a.patient_id, a.visit_date, a.diagnosis, a.treatment,
      a.medications, a.notes>>

add_medical_record(a, storage) ==
    LET exc == Execute(storage, MedicalRecordsConstraints(a))
        id == Len(medical_records) + 1
    IN  /\ exc = "none" => Len(medical_records) < MaxRecords
        /\ IF exc = "none"
           THEN /\ medical_records' =
                       Append(medical_records, MedicalRecordRow(id, a))
                /\ last' = Call("add_medical_record", a, storage, "none", id)
           ELSE /\ UNCHANGED medical_records
                /\ last' = Failure("add_medical_record", a, storage, exc,
                                   WriteCatches(exc), Sentinel)
        /\ UNCHANGED <<patients, appointments, now, issued>>

MedicalRecordDict(r) ==
    [record_id |-> r[1], visit_date |-> r[3], diagnosis |-> r[4],
     treatment |-> r[5], medications |-> r[6], notes |-> r[7]]

\* ORDER BY key DESC over rows: repeatedly take the first row whose key no
\* other row exceeds (rows of equal key keep their rowid order).
RECURSIVE OrderByDesc(_, _)
OrderByDesc(rows, col) ==
    IF rows = <<>> THEN <<>>
    ELSE LET k == CHOOSE i \in 1..Len(rows) :
                      /\ \A j \in 1..Len(rows) : rows[j][col] <= rows[i][col]
                      /\ \A j \in 1..(i - 1) : rows[j][col] < rows[i][col]
             rest == [j \in 1..(Len(rows) - 1) |->
                          IF j < k THEN rows[j] ELSE rows[j + 1]]
         IN  <<rows[k]>> \o OrderByDesc(rest, col)

\* ORDER BY key (ascending).
RECURSIVE OrderByAsc(_, _)
OrderByAsc(rows, col) ==
    IF rows = <<>> THEN <<>>
    ELSE LET k == CHOOSE i \in 1..Len(rows) :
                      /\ \A j \in 1..Len(rows) : rows[i][col] <= rows[j][col]
                      /\ \A j \in 1..(i - 1) : rows[i][col] < rows[j][col]
             rest == [j \in 1..(Len(rows) - 1) |->
                          IF j < k THEN rows[j] ELSE rows[j + 1]]
         IN  <<rows[k]>> \o OrderByAsc(rest, col)

MedicalHistory(patient_id) ==
    LET rows == OrderByDesc(
                   SelectSeq(medical_records, LAMBDA r : r[2] = patient_id), 3)
    IN  [i \in 1..Len(rows) |-> MedicalRecordDict(rows[i])]

get_patient_medical_history(patient_id) ==
    /\ last' = Call("get_patient_medical_history", patient_id, "ok", "none",
                    MedicalHistory(patient_id))
    /\ UNCHANGED <<patients, medical_records, appointments, now, issued>>

----------------------------------------------------------------------------
(* Appointments *)

\* A parameter the caller leaves out takes its default from the signature.
Omitted == "<omitted>"
DefaultArg(v, default) == IF v = Omitted THEN default ELSE v

AppointmentsConstraints(a) ==
    /\ a.patient_id # NoneInt
    /\ a.appointment_date # NoneInt
    /\ CheckIn(a.status, Statuses)
    /\ ForeignKeyOk(a.patient_id)

AppointmentRow(id, a) ==
    <<id, a.patient_id, a.appointment_date, a.purpose, a.status>>

schedule_appointment(given, storage) ==
    LET a == [given EXCEPT !.status = DefaultArg(given.status, "Scheduled")]
        exc == Execute(storage, AppointmentsConstraints(a))
        id == Len(appointments) + 1
    IN  /\ exc = "none" => Len(appointments) < MaxAppointments
        /\ IF exc = "none"
           THEN /\ appointments' = Append(appointments, AppointmentRow(id, a))
                /\ last' = Call("schedule_appointment", given, storage,
                                "none", id)
           ELSE /\ UNCHANGED appointments
                /\ last' = Failure("schedule_appointment", given, storage,
                                   exc, WriteCatches(exc), Sentinel)
        /\ UNCHANGED <<patients, medical_records, now, issued>>

\* The UPDATE without its WHERE clause.
UpdateStatusAllRows(appointment_id, status) ==
    [i \in 1..Len(appointments) |-> [appointments[i] EXCEPT ![5] = status]]

\* UPDATE appointments SET status = ? WHERE appointment_id = ?
\* The CHECK on status is evaluated for the rows the WHERE clause matches.
UpdateStatus(appointment_id, status) ==
    [i \in 1..Len(appointments) |->
        IF appointments[i][1] = appointment_id
        THEN [appointments[i] EXCEPT ![5] = status]
        ELSE appointments[i]]

RowCount(appointment_id) ==
    Cardinality({i \in 1..Len(appointments) :
                    appointments[i][1] = appointment_id})

update_appointment_status(appointment_id, status, storage) ==
    LET args == [appointment_id |-> appointment_id, status |-> status]
        exc == Execute(storage, RowCount(appointment_id) = 0
                                \/ CheckIn(status, Statuses))
    IN  /\ IF exc = "none"
           THEN /\ appointments' = UpdateStatus(appointment_id, status)
                /\ last' = Call("update_appointment_status", args, storage,
                                "none", RowCount(appointment_id) > 0)
           ELSE /\ UNCHANGED appointments
                /\ last' = Failure("update_appointment_status", args,
                                   storage, exc, WriteCatches(exc), FALSE)
        /\ UNCHANGED <<patients, medical_records, now, issued>>

\* datetime('now', f"+{days_ahead} days"): "+3 days" adds three days; for a
\* negative days_ahead the text is "+-3 days", which is no modifier, and
\* datetime() yields NULL.
DatetimeNowPlus(days_ahead) ==
    IF days_ahead >= 0 THEN now + days_ahead * DayTicks ELSE NoneInt

\* x BETWEEN lo AND hi: not true when an operand is NULL.
Between(x, lo, hi) ==
    /\ x # NoneInt /\ lo # NoneInt /\ hi # NoneInt
    /\ lo <= x /\ x <= hi

\* FROM appointments a JOIN patients p ON a.patient_id = p.patient_id,
\* projected on the six selected columns.
JoinPatients(rows) ==
    LET matched == SelectSeq(rows,
            LAMBDA a : \E i \in 1..Len(patients) : patients[i][1] = a[2])
        P(a) == patients[CHOOSE i \in 1..Len(patients) :
                             patients[i][1] = a[2]]
    IN  [k \in 1..Len(matched) |->
            <<matched[k][1], P(matched[k])[2], P(matched[k])[3],
              matched[k][3], matched[k][4], matched[k][5]>>]

AppointmentDict(a) ==
    [appointment_id |-> a[1], patient_name |-> a[2] \o " " \o a[3],
     appointment_date |-> a[4], purpose |-> a[5], status |-> a[6]]

UpcomingAppointments(days_ahead) ==
    LET inWindow == SelectSeq(JoinPatients(appointments),
            LAMBDA a : Between(a[4], now, DatetimeNowPlus(days_ahead)))
        rows == OrderByAsc(inWindow, 4)
    IN  [i \in 1..Len(rows) |-> AppointmentDict(rows[i])]

get_upcoming_appointments(days_ahead) ==
    /\ last' = Call("get_upcoming_appointments", days_ahead, "ok", "none",
                    UpcomingAppointments(days_ahead))
    /\ UNCHANGED <<patients, medical_records, appointments, now, issued>>

\* Time passes in the storage engine between two calls.
Tick ==
    /\ now < MaxTime
    /\ now' = now + 1
    /\ last' = Call("tick", now + 1, "ok", "none", 0)
    /\ UNCHANGED <<patients, medical_records, appointments, issued>>

----------------------------------------------------------------------------
(* Callers' inputs *)

PatientArgs(first, lastn, dob, gender, phone, email, address, blood) ==
    [first_name |-> first, last_name |-> lastn, date_of_birth |-> dob,
     gender |-> gender, phone |-> phone, email |-> email,
     address |-> address, blood_type |-> blood]

\* The two patients main() adds.
SamplePatients ==
    { PatientArgs("John", "Doe", "1985-05-15", "Male", "555-0101",
                  "john.doe@example.com", None, "O+"),
      PatientArgs("Jane", "Smith", "1990-11-22", "Female", "555-0202",
                  "jane.smith@example.com", None, "A-") }

PatientInputs ==
    SamplePatients \cup
    { PatientArgs("Ann", "Lee", "2001-02-03", "Other", None, None,
                  "1 Main St", None),
      PatientArgs("Jim", "Doe", "1985-05-15", "Male", None,
                  "john.doe@example.com", None, None),
      PatientArgs("Ann", "Doe", "2001-02-03", "male", None, None, None, None),
      PatientArgs("Ann", "Doe", "2001-02-03", "", None, None, None, None),
      PatientArgs("Ann", "Doe", "2001-02-03", None, None, None, None, None),
      PatientArgs("Ann", "Lee", "2001-02-03", "Female", None, None, None,
                  "C+"),
      PatientArgs(None, "Lee", "2001-02-03", "Female", None, None, None,
                  None) }

PatientIds == 1..(MaxPatients + 1) \cup {NoneInt}

SearchNames == {None, "", "Doe", "doe", "D_e", "an", "%"}
SearchGenders == {None, "", "Male", "Female", "male"}

\* The searches callers make: by name, by gender, and by both.
SearchInputs ==
    { <<n, None>> : n \in SearchNames } \cup
    { <<None, g>> : g \in SearchGenders } \cup
    { <<"Doe", "Male">>, <<"an", "Female">>, <<"doe", "Female">> }

RecordArgs(patient_id, visit_date, diagnosis, notes) ==
    [patient_id |-> patient_id, visit_date |-> visit_date,
     diagnosis |-> diagnosis, treatment |-> None, medications |-> None,
     notes |-> notes]

VisitDates == {1, 2}

RecordInputs ==
    { RecordArgs(p, d, "Hypertension", None) :
          p \in PatientIds, d \in VisitDates \cup {NoneInt} }

AppointmentArgs(patient_id, appointment_date, purpose, status) ==
    [patient_id |-> patient_id, appointment_date |-> appointment_date,
     purpose |-> purpose, status |-> status]

AppointmentDates == {1, 3}

\* Appointments of every kind of status, on one date.
AppointmentInputs ==
    { AppointmentArgs(p, 1, "Follow-up", s) :
          p \in {1, 2}, s \in {Omitted, "Completed", None, "Done"} } \cup
    { AppointmentArgs(NoneInt, 1, "Follow-up", Omitted),
      AppointmentArgs(1, NoneInt, "Follow-up", Omitted) }

\* Appointments of the default status, on several dates.
DatedAppointmentInputs ==
    { AppointmentArgs(p, d, "Follow-up", Omitted) :
          p \in {1, 2}, d \in AppointmentDates }

AppointmentIds == 1..(MaxAppointments + 1)
StatusInputs == Statuses \cup {None, "Done"}
DaysAhead == {-1, 0, 1}
DefaultDaysAhead == 7

----------------------------------------------------------------------------
(* Specifications *)

Init ==
    /\ patients = <<>>
    /\ medical_records = <<>>
    /\ appointments = <<>>
    /\ now = 0
    /\ last = Call("init", 0, "ok", "none", 0)
    /\ issued = <<>>

\* The calls main() makes on the other two tables.
SampleRecordInputs == { RecordArgs(1, 1, "Hypertension", None) }
SampleAppointmentInputs == { AppointmentArgs(1, 1, "Follow-up", Omitted) }

AddPatient == \E a \in PatientInputs, s \in Storage : add_patient(a, s)
AddSamplePatient == \E a \in SamplePatients, s \in Storage : add_patient(a, s)
GetPatientById == \E id \in PatientIds : get_patient_by_id(id)
SearchPatientsCall ==
    \E q \in SearchInputs : search_patients(q[1], q[2])
AddMedicalRecord ==
    \E a \in RecordInputs, s \in Storage : add_medical_record(a, s)
AddSampleMedicalRecord ==
    \E a \in SampleRecordInputs, s \in Storage : add_medical_record(a, s)
GetPatientMedicalHistory ==
    \E id \in PatientIds : get_patient_medical_history(id)
ScheduleAppointment ==
    \E a \in AppointmentInputs, s \in Storage : schedule_appointment(a, s)
ScheduleSampleAppointment ==
    \E a \in SampleAppointmentInputs, s \in Storage :
        schedule_appointment(a, s)
UpdateAppointmentStatus ==
    \E id \in AppointmentIds, st \in StatusInputs, s \in Storage :
        update_appointment_status(id, st, s)
UpdateSampleAppointmentStatus ==
    \E s \in Storage : update_appointment_status(1, "Completed", s)
ScheduleDatedAppointment ==
    \E a \in DatedAppointmentInputs, s \in Storage :
        schedule_appointment(a, s)
GetUpcomingAppointments ==
    \E d \in DaysAhead : get_upcoming_appointments(d)
GetUpcomingAppointmentsDefault ==
    get_upcoming_appointments(DefaultDaysAhead)

\* Creating and fetching patients under the callers' inputs, with the sample
\* calls on the other two tables.
NextPatients ==
    \/ AddPatient
    \/ GetPatientById
    \/ AddSampleMedicalRecord
    \/ ScheduleSampleAppointment
    \/ UpdateSampleAppointmentStatus

SpecPatients == Init /\ [][NextPatients]_vars

\* Searching the patients the callers created.
NextSearch ==
    \/ AddPatient
    \/ SearchPatientsCall

SpecSearch == Init /\ [][NextSearch]_vars

\* The medical record repository over the sample patients.
NextRecords ==
    \/ AddSamplePatient
    \/ AddMedicalRecord
    \/ GetPatientMedicalHistory

SpecRecords == Init /\ [][NextRecords]_vars

\* The appointment repository over the sample patients: the status of an
\* appointment from its creation through its updates.
NextAppointments ==
    \/ AddSamplePatient
    \/ ScheduleAppointment
    \/ UpdateAppointmentStatus
    \/ GetUpcomingAppointmentsDefault

SpecAppointments == Init /\ [][NextAppointments]_vars

\* The upcoming-appointments query over the sample patients, as time passes.
NextUpcoming ==
    \/ AddSamplePatient
    \/ ScheduleDatedAppointment
    \/ GetUpcomingAppointments
    \/ Tick

SpecUpcoming == Init /\ [][NextUpcoming]_vars

\* The whole layer.
Next ==
    \/ NextPatients
    \/ NextSearch
    \/ NextRecords
    \/ NextAppointments
    \/ NextUpcoming

Spec == Init /\ [][Next]_vars

----------------------------------------------------------------------------
(* Properties of the patient repository *)

WriteOps == {"add_patient", "add_medical_record", "schedule_appointment",
             "update_appointment_status"}

PatientExists(patient_id) ==
    \E i \in 1..Len(patients) : patients[i][1] = patient_id

RowsWithEmail(email) == {i \in 1..Len(patients) : patients[i][7] = email}

\* The step is an add_patient call that the engine executed and whose
\* non-null email a patient row already held.
DuplicateEmailStep ==
    /\ last'.op = "add_patient"
    /\ last'.storage = "ok"
    /\ last'.args.email # None
    /\ RowsWithEmail(last'.args.email) # {}

\* C2: no two patient rows share a non-null email, and an add_patient call
\* whose non-null email a patient already holds returns -1 and leaves the
\* patients table as it was, with exactly one row of that email; rows of
\* absent email are not limited (an otherwise valid add_patient without
\* email succeeds whatever rows exist).
C2_EmailUnique ==
    /\ [](\A i, j \in 1..Len(patients) :
             (i # j /\ patients[i][7] # None) =>
                 patients[i][7] # patients[j][7])
    /\ [][DuplicateEmailStep =>
             /\ last'.raised = "none"
             /\ last'.ret = Sentinel
             /\ patients' = patients
             /\ Cardinality({i \in 1..Len(patients') :
                    patients'[i][7] = last'.args.email}) = 1]_vars
    /\ []((/\ last.op = "add_patient"
           /\ last.storage = "ok"
           /\ last.args.email = None
           /\ last.args.first_name # None
           /\ last.args.gender \in Genders
           /\ last.args.blood_type \in BloodTypes \cup {None})
          => last.ret = Len(patients))

\* A second patient with the email of the first was turned away, and two
\* patients without email are possible.
C2_Witness ==
    /\ last.op = "add_patient"
    /\ last.storage = "ok"
    /\ last.ret = Sentinel
    /\ last.args.email # None
    /\ last.args.gender \in Genders
    /\ last.args.blood_type = None
    /\ Cardinality(RowsWithEmail(last.args.email)) = 1

\* C3: an add_patient call whose gender is not Male, Female or Other (an
\* absent gender included), or whose supplied blood_type is not one of the
\* eight types, returns -1, and every stored patient has a gender of the
\* three and a blood_type that is absent or one of the eight.
C3_EnumerationsEnforced ==
    /\ \A i \in 1..Len(patients) :
           /\ patients[i][5] \in Genders
           /\ patients[i][9] \in BloodTypes \cup {None}
    /\ (/\ last.op = "add_patient"
        /\ last.storage = "ok"
        /\ \/ last.args.gender \notin Genders
           \/ last.args.blood_type \notin BloodTypes \cup {None})
       => last.ret = Sentinel

\* C5: a write whose statement fails in the storage engine, by a constraint
\* or by a failure of the engine itself, returns the failure value (-1, or
\* false for the update) and raises nothing.
C5_WritesSoftFail ==
    last.op \in WriteOps =>
        /\ last.raised = "none"
        /\ last.storage # "ok" =>
               last.ret = IF last.op = "update_appointment_status"
                          THEN FALSE ELSE Sentinel

\* C10: every successful add_patient returned an id that is not -1 and was
\* not returned before, get_patient_by_id of that id returns the eight
\* inputs of that call, in every state after it, and get_patient_by_id of
\* an id never returned is None.
C10_RoundTrip ==
    /\ \A k \in 1..Len(issued) :
           LET id == issued[k][1]
               a == issued[k][2]
           IN  /\ id # Sentinel
               /\ \A j \in 1..(k - 1) : issued[j][1] # id
               /\ PatientById(id) =
                      <<[patient_id |-> id,
                         first_name |-> a.first_name,
                         last_name |-> a.last_name,
                         date_of_birth |-> a.date_of_birth,
                         gender |-> a.gender,
                         phone |-> a.phone,
                         email |-> a.email,
                         address |-> a.address,
                         blood_type |-> a.blood_type]>>
    /\ \A id \in PatientIds :
           (\A k \in 1..Len(issued) : issued[k][1] # id) =>
               PatientById(id) = <<>>
    /\ last.op = "get_patient_by_id" => last.ret = PatientById(last.args)

\* A patient is fetched after records and appointments were written and an
\* appointment was updated, and the fetch of an unknown id finds nothing.
C10_Witness ==
    /\ Len(issued) = 2
    /\ Len(medical_records) > 0
    /\ \E i \in 1..Len(appointments) : appointments[i][5] = "Completed"
    /\ last.op = "get_patient_by_id"
    /\ last.args = 2
    /\ Len(last.ret) = 1
    /\ last.ret[1].phone # None
    /\ PatientById(3) = <<>>

\* sub occurs in text as a run of consecutive, identical characters.
Contains(text, sub) ==
    \E k \in 0..(Len(text) - Len(sub)) :
        \A i \in 1..Len(sub) : text[k + i] = sub[i]

\* Two characters are the same letter up to case.
SameLetter(a, b) ==
    \/ a = b
    \/ \E i \in 1..Len(UpperCase) : {a, b} = {UpperCase[i], LowerCase[i]}

\* term is found in text the way the pattern %term% finds it: the
\* characters of term other than % lie at increasing positions of text,
\* neighbours in term at neighbouring positions, each _ on any character
\* and each letter on the same letter up to case.
Finds(term, text) ==
    LET idx == {i \in 1..Len(term) : term[i] # "%"}
    IN  \E pos \in [idx -> 1..Len(text)] :
            /\ \A i, j \in idx : i < j => pos[i] < pos[j]
            /\ \A i \in idx : (i + 1) \in idx => pos[i + 1] = pos[i] + 1
            /\ \A i \in idx : term[i] = "_" \/ SameLetter(term[i], text[pos[i]])

\* search_patients(name, gender) returns the patients of the rows `rows`,
\* each once and as get_patient_by_id returns it.
SearchReturns(name, gender, rows) ==
    LET res == SearchPatients(name, gender)
    IN  /\ Len(res) = Cardinality(rows)
        /\ {res[k].patient_id : k \in 1..Len(res)} =
               {patients[i][1] : i \in rows}
        /\ \A k \in 1..Len(res) : <<res[k]>> = PatientById(res[k].patient_id)

\* C9 as claimed: search_patients returns exactly the patients whose first
\* or last name contains name as a substring when name is supplied, and
\* whose gender equals gender when gender is supplied.
C9_SearchBySubstring ==
    last.op = "search_patients" =>
        LET n == last.args.name
            g == last.args.gender
            rows == {i \in 1..Len(patients) :
                       /\ n # None =>
                              \/ Contains(Chars(patients[i][2]), Chars(n))
                              \/ Contains(Chars(patients[i][3]), Chars(n))
                       /\ g # None => patients[i][5] = g}
        IN  /\ Len(last.ret) = Cardinality(rows)
            /\ {last.ret[k].patient_id : k \in 1..Len(last.ret)} =
                   {patients[i][1] : i \in rows}

\* C9 as amended: a filter is supplied when it is neither absent nor the
\* empty string; search_patients returns exactly the patients whose first
\* or last name matches the pattern %name% (letters up to case, % and _ in
\* name as wildcards) when name is supplied, and whose gender equals gender
\* when gender is supplied; with no filter supplied it returns every
\* patient.
C9_SearchByLike ==
    /\ \A n \in SearchNames, g \in SearchGenders :
           SearchReturns(n, g,
               {i \in 1..Len(patients) :
                   /\ (n # None /\ n # "") =>
                          \/ Finds(Chars(n), Chars(patients[i][2]))
                          \/ Finds(Chars(n), Chars(patients[i][3]))
                   /\ (g # None /\ g # "") =>
                          (patients[i][5] # None /\ patients[i][5] = g)})
    /\ Len(SearchPatients(None, None)) = Len(patients)
    /\ last.op = "search_patients" =>
           last.ret = SearchPatients(last.args.name, last.args.gender)

\* A search by a first name in lower case, restricted to one gender, found
\* one patient of two.
C9_Witness ==
    /\ last.op = "search_patients"
    /\ last.args.name = "an"
    /\ last.args.gender = "Female"
    /\ Len(patients) = 2
    /\ Len(last.ret) = 1
    /\ last.ret[1].first_name = "Jane"

----------------------------------------------------------------------------
(* Properties of the medical record repository *)

\* C1: every medical record and every appointment refers to an existing
\* patient, and add_medical_record and schedule_appointment called with a
\* patient_id that no patient has return -1 (and so add no row).
C1_ReferentialIntegrity ==
    /\ \A i \in 1..Len(medical_records) :
           PatientExists(medical_records[i][2])
    /\ \A i \in 1..Len(appointments) : PatientExists(appointments[i][2])
    /\ (/\ last.op \in {"add_medical_record", "schedule_appointment"}
        /\ last.raised = "none"
        /\ ~PatientExists(last.args.patient_id))
       => last.ret = Sentinel

\* C8: get_patient_medical_history(p) returns exactly the records added
\* with patient_id = p, most recent visit first, and the empty sequence
\* when p has no records or when no patient has the id p.
C8_MedicalHistory ==
    last.op = "get_patient_medical_history" =>
        LET res == last.ret
            mine == {i \in 1..Len(medical_records) :
                        medical_records[i][2] = last.args}
        IN  /\ Len(res) = Cardinality(mine)
            /\ \A k \in 1..Len(res) : \E i \in mine :
                   /\ res[k].record_id = medical_records[i][1]
                   /\ res[k].visit_date = medical_records[i][3]
                   /\ res[k].diagnosis = medical_records[i][4]
                   /\ res[k].notes = medical_records[i][7]
            /\ \A i \in mine : \E k \in 1..Len(res) :
                   res[k].record_id = medical_records[i][1]
            /\ \A k \in 1..(Len(res) - 1) :
                   res[k].visit_date >= res[k + 1].visit_date
            /\ (mine = {} \/ ~PatientExists(last.args)) => res = <<>>

----------------------------------------------------------------------------
(* Properties of the appointment repository *)

\* C4: every stored appointment has a status of Scheduled, Completed or
\* Cancelled; schedule_appointment without a status stores Scheduled, and
\* schedule_appointment and update_appointment_status called with a status
\* outside the three (an absent one included) return -1 and false.
C4_StatusEnumerated ==
    /\ \A i \in 1..Len(appointments) : appointments[i][5] \in Statuses
    /\ (/\ last.op = "schedule_appointment"
        /\ last.args.status = Omitted
        /\ last.ret # Sentinel)
       => appointments[last.ret][5] = "Scheduled"
    /\ (/\ last.op = "schedule_appointment"
        /\ last.raised = "none"
        /\ last.args.status \notin Statuses \cup {Omitted})
       => last.ret = Sentinel
    /\ (/\ last.op = "update_appointment_status"
        /\ last.raised = "none"
        /\ last.args.status \notin Statuses)
       => last.ret = FALSE

\* The step is an update_appointment_status call with one of the three
\* statuses that the engine executed.
UpdateStep ==
    /\ last'.op = "update_appointment_status"
    /\ last'.storage = "ok"
    /\ last'.args.status \in Statuses

\* C6: update_appointment_status(id, s) with s one of the three statuses
\* returns true when an appointment has the id, and that appointment's
\* status is then s whatever it was, every other appointment and every
\* other field being as before; it returns false when no appointment has
\* the id, and changes nothing.
C6_UpdateStatus ==
    [][UpdateStep =>
          LET hit == {i \in 1..Len(appointments) :
                         appointments[i][1] = last'.args.appointment_id}
          IN  /\ last'.raised = "none"
              /\ last'.ret = (hit # {})
              /\ Len(appointments') = Len(appointments)
              /\ \A i \in 1..Len(appointments) :
                     appointments'[i] =
                         IF i \in hit
                         THEN <<appointments[i][1], appointments[i][2],
                                appointments[i][3], appointments[i][4],
                                last'.args.status>>
                         ELSE appointments[i]
              /\ patients' = patients
              /\ medical_records' = medical_records]_vars

\* The second of two appointments was set to Scheduled and the first one,
\* Cancelled before, is Cancelled still.
C6_Witness ==
    /\ last.op = "update_appointment_status"
    /\ last.storage = "ok"
    /\ last.args = [appointment_id |-> 2, status |-> "Scheduled"]
    /\ last.ret = TRUE
    /\ Len(appointments) = 2
    /\ appointments[1][5] = "Cancelled"
    /\ appointments[2][5] = "Scheduled"

\* C7: get_upcoming_appointments(days_ahead) returns exactly the stored
\* appointments whose date lies in [now, now + days_ahead days], each with
\* the full name of its patient, in ascending order of date, and nothing
\* for a negative days_ahead.
C7_UpcomingWindow ==
    last.op = "get_upcoming_appointments" =>
        LET res == last.ret
            inWindow == {i \in 1..Len(appointments) :
                            /\ now <= appointments[i][3]
                            /\ appointments[i][3] <=
                                   now + last.args * DayTicks}
        IN  /\ Len(res) = Cardinality(inWindow)
            /\ \A i \in inWindow : \E k \in 1..Len(res) :
                   res[k].appointment_id = appointments[i][1]
            /\ \A k \in 1..Len(res) :
                   \E i \in inWindow, j \in 1..Len(patients) :
                       /\ res[k].appointment_id = appointments[i][1]
                       /\ res[k].appointment_date = appointments[i][3]
                       /\ res[k].status = appointments[i][5]
                       /\ patients[j][1] = appointments[i][2]
                       /\ res[k].patient_name =
                              patients[j][2] \o " " \o patients[j][3]
            /\ \A k \in 1..(Len(res) - 1) :
                   res[k].appointment_date <= res[k + 1].appointment_date
            /\ last.args < 0 => res = <<>>

====
